---- MODULE Spec2Model ----
(***************************************************************************)
(* Model of the Go memcached loader (src/main.go): main starts one writer  *)
(* goroutine per device type (writeInMemcached) and one reader goroutine   *)
(* per globbed file (readFile); readers parse lines (parseLine) and send   *)
(* records over buffered channels; writers deliver with bounded retry and  *)
(* count terminal failures per file in the shared map stats.stats.         *)
(*                                                                         *)
(* Strings are sequences of one-character strings, so that strings.Split,  *)
(* strconv.Atoi and strconv.ParseFloat are computed, not assumed.          *)
(*                                                                         *)
(* Each critical section under stats.Lock() is one step.  A file is not    *)
(* fixed in advance: each turn of the scanner loop reads some line of      *)
(* Lines, and the input may end after any line.  Left out: flag parsing,   *)
(* the log file, a failing filepath.Glob (logger.Fatal before any          *)
(* readFile starts) and queue_size = 0 (unbuffered channels).              *)
(***************************************************************************)
EXTENDS Integers, Sequences, FiniteSets, TLC

\* ------------------------------------------------------------- bounds
\* Number of files filepath.Glob returns.
NumFiles == 2
\* Largest number of lines a file holds.
MaxLines == 2
\* Value of the queue_size flag (capacity of every channel).
QueueSize == 2
\* Largest value of the max_retry flag; the flag ranges over -1..MaxRetryFlag.
MaxRetryFlag == 2
\* Largest counter values fed to the reconciliation arithmetic on its own.
MaxDecodeSuccess == 201
MaxDecodeErrors == 3
MaxSendingErrors == 2

Files == 1..NumFiles

\* ------------------------------------------------------------ strings
TAB == "\t"
COMMA == ","
Digits == {"0", "1", "2", "3", "4", "5", "6", "7", "8", "9"}

DigitVal(c) ==
  CASE c = "0" -> 0 [] c = "1" -> 1 [] c = "2" -> 2 [] c = "3" -> 3
    [] c = "4" -> 4 [] c = "5" -> 5 [] c = "6" -> 6 [] c = "7" -> 7
    [] c = "8" -> 8 [] c = "9" -> 9

\* strings.Split(s, sep) for a one-character sep: the substrings between the
\* separators, n separators giving n+1 substrings (the empty string gives one
\* empty substring).
RECURSIVE SplitFrom(_, _, _, _, _)
SplitFrom(s, sep, i, cur, acc) ==
  IF i > Len(s) THEN Append(acc, cur)
  ELSE IF s[i] = sep THEN SplitFrom(s, sep, i + 1, <<>>, Append(acc, cur))
  ELSE SplitFrom(s, sep, i + 1, Append(cur, s[i]), acc)

Split(s, sep) == SplitFrom(s, sep, 1, <<>>, <<>>)

\* The text of a line: its fields joined by sep (how the input files are written).
RECURSIVE Join(_, _)
Join(fields, sep) ==
  IF Len(fields) = 0 THEN <<>>
  ELSE IF Len(fields) = 1 THEN fields[1]
  ELSE fields[1] \o <<sep>> \o Join(Tail(fields), sep)

AllDigits(s) == Len(s) > 0 /\ \A i \in 1..Len(s) : s[i] \in Digits

RECURSIVE DecVal(_)
DecVal(s) == IF Len(s) = 0 THEN 0 ELSE 10 * DecVal(SubSeq(s, 1, Len(s) - 1)) + DigitVal(s[Len(s)])

\* strconv.Atoi with the error dropped (val32, _ := ...): an optional sign and
\* decimal digits, 0 for anything else.  The strings of the model are short, so
\* the range error of Atoi is out of reach.
Atoi(s) ==
  LET signed == Len(s) > 0 /\ s[1] \in {"+", "-"}
      body == IF signed THEN Tail(s) ELSE s
  IN IF ~AllDigits(body) THEN 0
     ELSE IF signed /\ s[1] = "-" THEN 0 - DecVal(body) ELSE DecVal(body)

\* strconv.ParseFloat with the error dropped, on the decimal notation the model's
\* lines use: [sign] digits [ "." digit ]; 0 for anything else.  The value is
\* kept in tenths (an exact scaled integer).
ParseFloat(s) ==
  LET signed == Len(s) > 0 /\ s[1] \in {"+", "-"}
      body == IF signed THEN Tail(s) ELSE s
      parts == Split(body, ".")
      mag == IF Len(parts) = 1 /\ AllDigits(parts[1]) THEN 10 * DecVal(parts[1])
             ELSE IF Len(parts) = 2 /\ AllDigits(parts[1]) /\ AllDigits(parts[2])
                     /\ Len(parts[2]) = 1
               THEN 10 * DecVal(parts[1]) + DecVal(parts[2])
             ELSE 0
  IN IF signed /\ s[1] = "-" THEN 0 - mag ELSE mag

\* ------------------------------------------------------------ devices
IDFA == <<"i", "d", "f", "a">>
GAID == <<"g", "a", "i", "d">>
ADID == <<"a", "d", "i", "d">>
DVID == <<"d", "v", "i", "d">>
\* The keys of deviceMemc, hence of channels.
Devices == {IDFA, GAID, ADID, DVID}

\* ----------------------------------------------------------- parseLine
\* The record parseLine returns beside ErrParseLine.
ErrRecord(filename) ==
  [DevType |-> <<>>, DevId |-> <<>>, Lat |-> 0, Lon |-> 0, Apps |-> <<0>>,
   FileName |-> filename]

parseLine(line, filename) ==
  LET lineParts == Split(line, TAB) IN
  IF Len(lineParts) # 5 THEN [err |-> TRUE, rec |-> ErrRecord(filename)]
  ELSE IF lineParts[1] = <<>> \/ lineParts[2] = <<>>
    THEN [err |-> TRUE, rec |-> ErrRecord(filename)]
  ELSE
    LET strApps == Split(lineParts[5], COMMA)
        \* uint32(val32) is val32 itself on the non-negative ids of the model
        apps == [i \in 1..Len(strApps) |-> Atoi(strApps[i])]
        lat == ParseFloat(lineParts[3])
        \* the source parses lineParts[2] (the third field) a second time
        lon == ParseFloat(lineParts[3])
    IN [err |-> FALSE,
        rec |-> [DevType |-> lineParts[1], DevId |-> lineParts[2], Lat |-> lat,
                 Lon |-> lon, Apps |-> apps, FileName |-> filename]]

\* ------------------------------------------------------- input lines
DEV1 == <<"d", "1">>
UNKNOWN == <<"z", "z", "z", "z">>
\* The lines a file of the model may hold.
Lines ==
  { Join(<<IDFA, DEV1, <<"1">>, <<"2">>, <<"3", ",", "4">>>>, TAB),
    Join(<<GAID, DEV1, <<"1">>, <<"2">>, <<"3">>>>, TAB),
    Join(<<UNKNOWN, DEV1, <<"1">>, <<"2">>, <<"3">>>>, TAB),
    Join(<<IDFA, DEV1, <<"1">>, <<"2">>>>, TAB),
    Join(<<IDFA, DEV1, <<"1">>, <<"2">>, <<"3">>, <<"4">>>>, TAB),
    Join(<<<<>>, DEV1, <<"1">>, <<"2">>, <<"3">>>>, TAB),
    Join(<<IDFA, <<>>, <<"1">>, <<"2">>, <<"3">>>>, TAB) }

\* ------------------------------------------------------ the stats map
\* A Go map: made is FALSE for the nil map.  Reading a nil map gives the zero
\* value, delete on it does nothing, assigning to it panics.
\* A map read that gives 1, not the zero value, for a missing key.
MapGetOne(m, k) == IF k \in DOMAIN m.entries THEN m.entries[k] ELSE 1

MapGet(m, k) == IF k \in DOMAIN m.entries THEN m.entries[k] ELSE 0

MapDelete(m, k) ==
  [m EXCEPT !.entries = [x \in DOMAIN m.entries \ {k} |-> m.entries[x]]]

MapSet(m, k, v) ==
  [m EXCEPT !.entries = [x \in DOMAIN m.entries \cup {k} |->
                           IF x = k THEN v ELSE m.entries[x]]]

\* stats := fileStats{}: the map field is never made.
NewFileStats == [made |-> FALSE, entries |-> <<>>]

\* ------------------------------------------------------ reconciliation
\* Disposition with the threshold test written <= instead of <.
DispositionLe(nErrors, nSuccess) ==
  IF nSuccess = 0 THEN "AllErrors"
  ELSE IF (nSuccess > 0 /\ 100 * nErrors <= nSuccess) \/ (nSuccess < 0 /\ nErrors >= 0)
    THEN "Acceptable"
  ELSE "High"

\* Disposition without the nSuccess == 0 test: the division by zero gives +Inf
\* or NaN, neither of which is below the threshold.
DispositionNoZeroTest(nErrors, nSuccess) ==
  IF (nSuccess > 0 /\ 100 * nErrors < nSuccess) \/ (nSuccess < 0 /\ nErrors >= 0)
    THEN "Acceptable"
  ELSE "High"

\* The verdict readFile logs from its final counters: errRate is
\* float64(nErrors)/float64(nSuccess) compared with NormalErrRate = 0.01.  For
\* counters far below 2^53 the quotient rounds to the double 0.01 exactly when
\* nErrors/nSuccess = 1/100, and is otherwise on the same side of it as the
\* rational, so errRate < 0.01 is 100*nErrors < nSuccess for nSuccess > 0; for
\* nSuccess < 0 the quotient is <= 0, which is below 0.01.
Disposition(nErrors, nSuccess) ==
  IF nSuccess = 0 THEN "AllErrors"
  ELSE IF (nSuccess > 0 /\ 100 * nErrors < nSuccess) \/ (nSuccess < 0 /\ nErrors >= 0)
    THEN "Acceptable"
  ELSE "High"

\* nErrors += nSendingErrors; nSuccess -= nSendingErrors; then the verdict.
Reconciled(nErrors, nSuccess, nSendingErrors) ==
  [nErrors |-> nErrors + nSendingErrors,
   nSuccess |-> nSuccess - nSendingErrors,
   disp |-> Disposition(nErrors + nSendingErrors, nSuccess - nSendingErrors)]

\* --------------------------------------------------------------- state
VARIABLES
  proc,            \* the process: "running", "exited" (main returned), "fatal"
                   \* (logger.Fatal), "panic" (nil-map write), "deadlock" (runtime)
  maxRetry,        \* the max_retry flag
  launched,        \* files main has started a readFile goroutine for
  wg,              \* the WaitGroup counter
  stats,           \* the fileStats map (under its mutex)
  channels,        \* device -> buffered channel contents
  phase,           \* readFile(f): where the goroutine is
  lineNo,          \* readFile(f): lines scanned so far
  apps,            \* readFile(f): <<record>> while blocked in the channel send
  nSuccess,        \* readFile(f)
  nErrors,         \* readFile(f)
  nSendingErrors,  \* readFile(f)
  disp,            \* readFile(f): the verdict it logged
  renamed,         \* file system: successful renames of f
  wphase,          \* writeInMemcached(d): where the goroutine is
  val,             \* writeInMemcached(d): <<record>> received and not yet finished
  tries,           \* writeInMemcached(d): the loop counter i
  allBad,          \* history: every line of f scanned so far failed to parse
  attempted,       \* history: memClient.Set was called for a record of f
  exhausted,       \* history: records of f whose maxRetry attempts all failed
  sent,            \* history: records sent on the channel of d so far
  lastTicket,      \* history: place in that order of the record d received last
  calls,           \* history: memClient.Set calls for the record d received last
  lastOk,          \* history: the last of these calls succeeded
  pIn,             \* parseLine on its own: the line
  pOut,            \* parseLine on its own: the result
  dIn,             \* reconciliation on its own: the counters
  dOut             \* reconciliation on its own: the result

vars == <<proc, maxRetry, launched, wg, stats, channels, phase, lineNo, apps,
          nSuccess, nErrors, nSendingErrors, disp, renamed, wphase, val, tries,
          allBad, attempted, exhausted, sent, lastTicket, calls, lastOk,
          pIn, pOut, dIn, dOut>>

readerVars == <<phase, lineNo, apps, nSuccess, nErrors, nSendingErrors, disp,
                renamed, allBad, sent>>
writerVars == <<wphase, val, tries, attempted, exhausted, lastTicket, calls, lastOk>>
dVars == <<dIn, dOut, pIn, pOut>>

NoCounters == [nErrors |-> 0, nSuccess |-> 0, nSendingErrors |-> 0]
NoResult == [nErrors |-> 0, nSuccess |-> 0, disp |-> "none"]
NoParse == [done |-> FALSE, err |-> FALSE, rec |-> ErrRecord(0)]

\* The state when main has parsed its flags, made the channels and started the
\* four writers, before the first readFile is started.
Init ==
  /\ proc = "running"
  /\ maxRetry \in (-1)..MaxRetryFlag
  /\ launched = 0
  /\ wg = 0
  /\ stats = NewFileStats
  /\ channels = [d \in Devices |-> <<>>]
  /\ phase = [f \in Files |-> "NotStarted"]
  /\ lineNo = [f \in Files |-> 0]
  /\ apps = [f \in Files |-> <<>>]
  /\ nSuccess = [f \in Files |-> 0]
  /\ nErrors = [f \in Files |-> 0]
  /\ nSendingErrors = [f \in Files |-> 0]
  /\ disp = [f \in Files |-> "none"]
  /\ renamed = [f \in Files |-> 0]
  /\ wphase = [d \in Devices |-> "Idle"]
  /\ val = [d \in Devices |-> <<>>]
  /\ tries = [d \in Devices |-> 0]
  /\ allBad = [f \in Files |-> TRUE]
  /\ attempted = [f \in Files |-> FALSE]
  /\ exhausted = [f \in Files |-> 0]
  /\ sent = [d \in Devices |-> 0]
  /\ lastTicket = [d \in Devices |-> 0]
  /\ calls = [d \in Devices |-> 0]
  /\ lastOk = [d \in Devices |-> FALSE]
  /\ pIn = <<>>
  /\ pOut = NoParse
  /\ dIn = NoCounters
  /\ dOut = NoResult

\* ---------------------------------------------------------------- main
\* wg.Add(1); go readFile(fn, ...) for the next file of the glob.
Launch ==
  /\ proc = "running"
  /\ launched < NumFiles
  /\ launched' = launched + 1
  /\ wg' = wg + 1
  /\ phase' = [phase EXCEPT ![launched + 1] = "Opening"]
  /\ UNCHANGED <<proc, maxRetry, stats, channels, lineNo, apps, nSuccess,
                 nErrors, nSendingErrors, disp, renamed, allBad, sent, writerVars, dVars>>

\* MainReturn waiting also for the channels to be empty and the writers to be
\* back at their receive.
MainReturnDrained ==
  /\ proc = "running"
  /\ launched = NumFiles
  /\ wg = 0
  /\ \A d \in Devices : channels[d] = <<>> /\ wphase[d] = "Idle"
  /\ proc' = "exited"
  /\ UNCHANGED <<maxRetry, launched, wg, stats, channels, readerVars, writerVars, dVars>>

\* wg.Wait() returns and main returns: the process ends, whatever the writers
\* and the channels still hold.
MainReturn ==
  /\ proc = "running"
  /\ launched = NumFiles
  /\ wg = 0
  /\ proc' = "exited"
  /\ UNCHANGED <<maxRetry, launched, wg, stats, channels, readerVars, writerVars, dVars>>

\* ------------------------------------------------------------ readFile
\* OpenFile with the failure ending the goroutine only (logger.Println and
\* return in place of logger.Fatal).
OpenFileLocal(f) ==
  /\ proc = "running"
  /\ phase[f] = "Opening"
  /\ \E ok \in BOOLEAN :
       phase' = [phase EXCEPT ![f] = IF ok THEN "Scanning" ELSE "Fatal"]
  /\ UNCHANGED <<proc, maxRetry, launched, wg, stats, channels, lineNo, apps,
                 nSuccess, nErrors, nSendingErrors, disp, renamed, allBad, sent,
                 writerVars, dVars>>

\* os.Open and gzip.NewReader: either failing calls logger.Fatal, which exits
\* the process.
OpenFile(f) ==
  /\ proc = "running"
  /\ phase[f] = "Opening"
  /\ \E ok \in BOOLEAN :
       IF ok THEN /\ phase' = [phase EXCEPT ![f] = "Scanning"]
                  /\ proc' = proc
       ELSE /\ phase' = [phase EXCEPT ![f] = "Fatal"]
            /\ proc' = "fatal"
  /\ UNCHANGED <<maxRetry, launched, wg, stats, channels, lineNo, apps,
                 nSuccess, nErrors, nSendingErrors, disp, renamed, allBad, sent,
                 writerVars, dVars>>

\* One turn of the scanner loop up to the channel send: the next line (text) is
\* read and parsed; a parse error is counted and the loop goes on, a record is counted and
\* is about to be sent.
ScanLine(f) ==
  /\ proc = "running"
  /\ phase[f] = "Scanning"
  /\ apps[f] = <<>>
  /\ lineNo[f] < MaxLines
  /\ \E line \in Lines :
       LET r == parseLine(line, f) IN
       /\ lineNo' = [lineNo EXCEPT ![f] = @ + 1]
       /\ allBad' = [allBad EXCEPT ![f] = @ /\ r.err]
       /\ IF r.err
            THEN /\ nErrors' = [nErrors EXCEPT ![f] = @ + 1]
                 /\ UNCHANGED <<nSuccess, apps>>
            ELSE /\ nSuccess' = [nSuccess EXCEPT ![f] = @ + 1]
                 /\ apps' = [apps EXCEPT ![f] = <<r.rec>>]
                 /\ UNCHANGED nErrors
  /\ UNCHANGED <<proc, maxRetry, launched, wg, stats, channels, phase,
                 nSendingErrors, disp, renamed, sent, writerVars, dVars>>

\* The record as it travels: Ticket (history) is its place among the records
\* sent on its channel.
Stamp(rec, n) ==
  [x \in DOMAIN rec \cup {"Ticket"} |-> IF x = "Ticket" THEN n ELSE rec[x]]

\* Send on a channel without a capacity.
SendUnbounded(f) ==
  /\ proc = "running"
  /\ phase[f] = "Scanning"
  /\ apps[f] # <<>>
  /\ LET rec == apps[f][1] IN
       /\ rec.DevType \in Devices
       /\ channels' = [channels EXCEPT ![rec.DevType] =
                          Append(@, Stamp(rec, sent[rec.DevType] + 1))]
       /\ sent' = [sent EXCEPT ![rec.DevType] = @ + 1]
  /\ apps' = [apps EXCEPT ![f] = <<>>]
  /\ UNCHANGED <<proc, maxRetry, launched, wg, stats, phase, lineNo, nSuccess,
                 nErrors, nSendingErrors, disp, renamed, allBad, writerVars, dVars>>

\* channels[apps.DevType] <- &apps: blocks while the channel is full, and for
\* ever when the map has no channel for the type (a send on a nil channel).
Send(f) ==
  /\ proc = "running"
  /\ phase[f] = "Scanning"
  /\ apps[f] # <<>>
  /\ LET rec == apps[f][1] IN
       /\ rec.DevType \in Devices
       /\ Len(channels[rec.DevType]) < QueueSize
       /\ channels' = [channels EXCEPT ![rec.DevType] =
                          Append(@, Stamp(rec, sent[rec.DevType] + 1))]
       /\ sent' = [sent EXCEPT ![rec.DevType] = @ + 1]
  /\ apps' = [apps EXCEPT ![f] = <<>>]
  /\ UNCHANGED <<proc, maxRetry, launched, wg, stats, phase, lineNo, nSuccess,
                 nErrors, nSendingErrors, disp, renamed, allBad, writerVars, dVars>>

\* scanner.Scan() returns false (end of input or a scanner error, which is only
\* logged).
EndScan(f) ==
  /\ proc = "running"
  /\ phase[f] = "Scanning"
  /\ apps[f] = <<>>
  /\ phase' = [phase EXCEPT ![f] = "Reconciling"]
  /\ UNCHANGED <<proc, maxRetry, launched, wg, stats, channels, lineNo, apps,
                 nSuccess, nErrors, nSendingErrors, disp, renamed, allBad, sent,
                 writerVars, dVars>>

\* Under stats.Lock(): read and delete the file's entry; then the arithmetic and
\* the logged verdict.
Reconcile(f) ==
  /\ proc = "running"
  /\ phase[f] = "Reconciling"
  /\ LET n == MapGet(stats, f)
         r == Reconciled(nErrors[f], nSuccess[f], n)
     IN /\ stats' = MapDelete(stats, f)
        /\ nSendingErrors' = [nSendingErrors EXCEPT ![f] = n]
        /\ nErrors' = [nErrors EXCEPT ![f] = r.nErrors]
        /\ nSuccess' = [nSuccess EXCEPT ![f] = r.nSuccess]
        /\ disp' = [disp EXCEPT ![f] = r.disp]
  /\ phase' = [phase EXCEPT ![f] = "Archiving"]
  /\ UNCHANGED <<proc, maxRetry, launched, wg, channels, lineNo, apps,
                 renamed, allBad, sent, writerVars, dVars>>

\* Archive with a rename failure treated like an open failure (logger.Fatal).
ArchiveFatal(f) ==
  /\ proc = "running"
  /\ phase[f] = "Archiving"
  /\ \E ok \in BOOLEAN :
       IF ok THEN /\ renamed' = [renamed EXCEPT ![f] = @ + 1]
                  /\ phase' = [phase EXCEPT ![f] = "Returning"]
                  /\ proc' = proc
       ELSE /\ phase' = [phase EXCEPT ![f] = "Fatal"]
            /\ proc' = "fatal"
            /\ UNCHANGED renamed
  /\ UNCHANGED <<maxRetry, launched, wg, stats, channels, lineNo, apps,
                 nSuccess, nErrors, nSendingErrors, disp, allBad, sent, writerVars, dVars>>

\* os.Rename to the dot-prefixed name; a failure is logged.
Archive(f) ==
  /\ proc = "running"
  /\ phase[f] = "Archiving"
  /\ \E ok \in BOOLEAN :
       renamed' = [renamed EXCEPT ![f] = IF ok THEN @ + 1 ELSE @]
  /\ phase' = [phase EXCEPT ![f] = "Returning"]
  /\ UNCHANGED <<proc, maxRetry, launched, wg, stats, channels, lineNo, apps,
                 nSuccess, nErrors, nSendingErrors, disp, allBad, sent, writerVars, dVars>>

\* return: the deferred wg.Done() runs.
Finish(f) ==
  /\ proc = "running"
  /\ phase[f] = "Returning"
  /\ wg' = wg - 1
  /\ phase' = [phase EXCEPT ![f] = "Done"]
  /\ UNCHANGED <<proc, maxRetry, launched, stats, channels, lineNo, apps,
                 nSuccess, nErrors, nSendingErrors, disp, renamed, allBad, sent,
                 writerVars, dVars>>

\* ---------------------------------------------------- writeInMemcached
\* Receive taking the record sent last instead of the one sent first.
ReceiveNewest(d) ==
  /\ proc = "running"
  /\ wphase[d] = "Idle"
  /\ channels[d] # <<>>
  /\ LET n == Len(channels[d]) IN
       /\ channels' = [channels EXCEPT ![d] = SubSeq(@, 1, n - 1)]
       /\ lastTicket' = [lastTicket EXCEPT ![d] = channels[d][n].Ticket]
       /\ IF 0 < maxRetry
            THEN /\ val' = [val EXCEPT ![d] = <<channels[d][n]>>]
                 /\ wphase' = [wphase EXCEPT ![d] = "Retrying"]
            ELSE UNCHANGED <<val, wphase>>
  /\ tries' = [tries EXCEPT ![d] = 0]
  /\ calls' = [calls EXCEPT ![d] = 0]
  /\ lastOk' = [lastOk EXCEPT ![d] = FALSE]
  /\ UNCHANGED <<proc, maxRetry, launched, wg, stats, readerVars, attempted,
                 exhausted, dVars>>

\* Receive entering the retry loop when maxRetry is 0 as well (loop test
\* i <= maxRetry on entry).
ReceiveLoopAtZero(d) ==
  /\ proc = "running"
  /\ wphase[d] = "Idle"
  /\ channels[d] # <<>>
  /\ channels' = [channels EXCEPT ![d] = Tail(@)]
  /\ tries' = [tries EXCEPT ![d] = 0]
  /\ lastTicket' = [lastTicket EXCEPT ![d] = Head(channels[d]).Ticket]
  /\ calls' = [calls EXCEPT ![d] = 0]
  /\ lastOk' = [lastOk EXCEPT ![d] = FALSE]
  /\ IF 0 <= maxRetry
       THEN /\ val' = [val EXCEPT ![d] = <<Head(channels[d])>>]
            /\ wphase' = [wphase EXCEPT ![d] = "Retrying"]
       ELSE UNCHANGED <<val, wphase>>
  /\ UNCHANGED <<proc, maxRetry, launched, wg, stats, readerVars, attempted,
                 exhausted, dVars>>

\* for val := range channel: the next record is received; with maxRetry <= 0 the
\* retry loop does not run, err stays nil and the writer is back at the receive.
Receive(d) ==
  /\ proc = "running"
  /\ wphase[d] = "Idle"
  /\ channels[d] # <<>>
  /\ channels' = [channels EXCEPT ![d] = Tail(@)]
  /\ tries' = [tries EXCEPT ![d] = 0]
  /\ lastTicket' = [lastTicket EXCEPT ![d] = Head(channels[d]).Ticket]
  /\ calls' = [calls EXCEPT ![d] = 0]
  /\ lastOk' = [lastOk EXCEPT ![d] = FALSE]
  /\ IF 0 < maxRetry
       THEN /\ val' = [val EXCEPT ![d] = <<Head(channels[d])>>]
            /\ wphase' = [wphase EXCEPT ![d] = "Retrying"]
       ELSE UNCHANGED <<val, wphase>>
  /\ UNCHANGED <<proc, maxRetry, launched, wg, stats, readerVars, attempted,
                 exhausted, dVars>>

\* Attempt with the loop test written i <= maxRetry.
AttemptOneMore(d) ==
  /\ proc = "running"
  /\ wphase[d] = "Retrying"
  /\ tries[d] <= maxRetry
  /\ LET file == val[d][1].FileName IN
     /\ attempted' = [attempted EXCEPT ![file] = TRUE]
     /\ calls' = [calls EXCEPT ![d] = @ + 1]
     /\ \E ok \in BOOLEAN :
          /\ lastOk' = [lastOk EXCEPT ![d] = ok]
          /\ IF ok
               THEN /\ wphase' = [wphase EXCEPT ![d] = "Idle"]
                    /\ val' = [val EXCEPT ![d] = <<>>]
                    /\ UNCHANGED <<tries, exhausted>>
               ELSE /\ tries' = [tries EXCEPT ![d] = @ + 1]
                    /\ IF tries[d] + 1 <= maxRetry
                         THEN UNCHANGED <<wphase, exhausted>>
                         ELSE /\ wphase' = [wphase EXCEPT ![d] = "Failed"]
                              /\ exhausted' = [exhausted EXCEPT ![file] = @ + 1]
                    /\ UNCHANGED val
  /\ UNCHANGED <<proc, maxRetry, launched, wg, stats, channels, readerVars,
                 lastTicket, dVars>>

\* One turn of the retry loop: memClient.Set succeeds (break; the record is
\* done) or fails (sleep, i++; after the last turn err is still set).
Attempt(d) ==
  /\ proc = "running"
  /\ wphase[d] = "Retrying"
  /\ tries[d] < maxRetry
  /\ LET file == val[d][1].FileName IN
     /\ attempted' = [attempted EXCEPT ![file] = TRUE]
     /\ calls' = [calls EXCEPT ![d] = @ + 1]
     /\ \E ok \in BOOLEAN :
          /\ lastOk' = [lastOk EXCEPT ![d] = ok]
          /\ IF ok
               THEN /\ wphase' = [wphase EXCEPT ![d] = "Idle"]
                    /\ val' = [val EXCEPT ![d] = <<>>]
                    /\ UNCHANGED <<tries, exhausted>>
               ELSE /\ tries' = [tries EXCEPT ![d] = @ + 1]
                    /\ IF tries[d] + 1 < maxRetry
                         THEN UNCHANGED <<wphase, exhausted>>
                         ELSE /\ wphase' = [wphase EXCEPT ![d] = "Failed"]
                              /\ exhausted' = [exhausted EXCEPT ![file] = @ + 1]
                    /\ UNCHANGED val
  /\ UNCHANGED <<proc, maxRetry, launched, wg, stats, channels, readerVars,
                 lastTicket, dVars>>

\* if err != nil: under stats.Lock(), stats.stats[val.FileName] += 1, which
\* panics on the nil map and takes the process down.
Report(d) ==
  /\ proc = "running"
  /\ wphase[d] = "Failed"
  /\ LET file == val[d][1].FileName IN
     IF stats.made
       THEN /\ stats' = MapSet(stats, file, MapGet(stats, file) + 1)
            /\ wphase' = [wphase EXCEPT ![d] = "Idle"]
            /\ val' = [val EXCEPT ![d] = <<>>]
            /\ proc' = proc
       ELSE /\ wphase' = [wphase EXCEPT ![d] = "Panicked"]
            /\ proc' = "panic"
            /\ UNCHANGED <<stats, val>>
  /\ UNCHANGED <<maxRetry, launched, wg, channels, readerVars, tries, attempted,
                 exhausted, lastTicket, calls, lastOk, dVars>>

\* ------------------------------------------------------------- runtime
\* A readFile blocked for ever in its send.
BlockedOnNil(f) ==
  phase[f] = "Scanning" /\ apps[f] # <<>> /\ apps[f][1].DevType \notin Devices

\* Every goroutine is asleep (main in wg.Wait, the writers in their receive, the
\* readers done or in a send on a nil channel): the Go runtime ends the process
\* with "all goroutines are asleep - deadlock!".
RuntimeDeadlock ==
  /\ proc = "running"
  /\ launched = NumFiles
  /\ wg > 0
  /\ \A f \in Files : phase[f] = "Done" \/ BlockedOnNil(f)
  /\ \A d \in Devices : wphase[d] = "Idle" /\ channels[d] = <<>>
  /\ proc' = "deadlock"
  /\ UNCHANGED <<maxRetry, launched, wg, stats, channels, readerVars, writerVars, dVars>>

Next ==
  \/ Launch
  \/ MainReturn
  \/ \E f \in Files : OpenFile(f)
  \/ \E f \in Files : ScanLine(f)
  \/ \E f \in Files : Send(f)
  \/ \E f \in Files : EndScan(f)
  \/ \E f \in Files : Reconcile(f)
  \/ \E f \in Files : Archive(f)
  \/ \E f \in Files : Finish(f)
  \/ \E d \in Devices : Receive(d)
  \/ \E d \in Devices : Attempt(d)
  \/ \E d \in Devices : Report(d)
  \/ RuntimeDeadlock

Spec == Init /\ [][Next]_vars

\* ------------------------------------- reconciliation on its own
\* The arithmetic of readFile applied to counters drawn from bounded ranges, the
\* sending errors never above the successes they are taken from.
DispInit ==
  /\ proc = "running"
  /\ maxRetry = 0
  /\ launched = 0
  /\ wg = 0
  /\ stats = NewFileStats
  /\ channels = [d \in Devices |-> <<>>]
  /\ phase = [f \in Files |-> "NotStarted"]
  /\ lineNo = [f \in Files |-> 0]
  /\ apps = [f \in Files |-> <<>>]
  /\ nSuccess = [f \in Files |-> 0]
  /\ nErrors = [f \in Files |-> 0]
  /\ nSendingErrors = [f \in Files |-> 0]
  /\ disp = [f \in Files |-> "none"]
  /\ renamed = [f \in Files |-> 0]
  /\ wphase = [d \in Devices |-> "Idle"]
  /\ val = [d \in Devices |-> <<>>]
  /\ tries = [d \in Devices |-> 0]
  /\ allBad = [f \in Files |-> TRUE]
  /\ attempted = [f \in Files |-> FALSE]
  /\ exhausted = [f \in Files |-> 0]
  /\ sent = [d \in Devices |-> 0]
  /\ lastTicket = [d \in Devices |-> 0]
  /\ calls = [d \in Devices |-> 0]
  /\ lastOk = [d \in Devices |-> FALSE]
  /\ pIn = <<>>
  /\ pOut = NoParse
  /\ dIn \in { c \in [nErrors : 0..MaxDecodeErrors, nSuccess : 0..MaxDecodeSuccess,
                      nSendingErrors : 0..MaxSendingErrors] :
               c.nSendingErrors <= c.nSuccess }
  /\ dOut = NoResult

DispStep ==
  /\ dOut.disp = "none"
  /\ dOut' = Reconciled(dIn.nErrors, dIn.nSuccess, dIn.nSendingErrors)
  /\ UNCHANGED <<proc, maxRetry, launched, wg, stats, channels, readerVars,
                 writerVars, dIn, pIn, pOut>>

DispSpec == DispInit /\ [][DispStep]_vars

\* ------------------------------------------------- parseLine on its own
\* Lines of four, five and six fields built from field values that are well
\* formed, malformed or empty.
ParseTypes == {IDFA, UNKNOWN, <<>>}
ParseIds == {DEV1, <<>>}
ParseCoords == {<<"1">>, <<"2", ".", "5">>, <<"x">>, <<"-", "3">>}
ParseApps == {<<"3">>, <<"3", ",", "4">>, <<"x">>, <<>>}

ParseLines ==
  LET five == { <<t, i, la, lo, a>> : t \in ParseTypes, i \in ParseIds,
                la \in ParseCoords, lo \in ParseCoords, a \in ParseApps }
      four == { <<t, i, la, a>> : t \in ParseTypes, i \in ParseIds,
                la \in ParseCoords, a \in ParseApps }
      six == { <<t, DEV1, la, lo, a, <<"9">>>> : t \in ParseTypes,
               la \in ParseCoords, lo \in ParseCoords, a \in ParseApps }
  IN { Join(fields, TAB) : fields \in five \cup four \cup six }

ParseInit ==
  /\ proc = "running"
  /\ maxRetry = 0
  /\ launched = 0
  /\ wg = 0
  /\ stats = NewFileStats
  /\ channels = [d \in Devices |-> <<>>]
  /\ phase = [f \in Files |-> "NotStarted"]
  /\ lineNo = [f \in Files |-> 0]
  /\ apps = [f \in Files |-> <<>>]
  /\ nSuccess = [f \in Files |-> 0]
  /\ nErrors = [f \in Files |-> 0]
  /\ nSendingErrors = [f \in Files |-> 0]
  /\ disp = [f \in Files |-> "none"]
  /\ renamed = [f \in Files |-> 0]
  /\ wphase = [d \in Devices |-> "Idle"]
  /\ val = [d \in Devices |-> <<>>]
  /\ tries = [d \in Devices |-> 0]
  /\ allBad = [f \in Files |-> TRUE]
  /\ attempted = [f \in Files |-> FALSE]
  /\ exhausted = [f \in Files |-> 0]
  /\ sent = [d \in Devices |-> 0]
  /\ lastTicket = [d \in Devices |-> 0]
  /\ calls = [d \in Devices |-> 0]
  /\ lastOk = [d \in Devices |-> FALSE]
  /\ pIn \in ParseLines
  /\ pOut = NoParse
  /\ dIn = NoCounters
  /\ dOut = NoResult

ParseStep ==
  /\ ~pOut.done
  /\ LET r == parseLine(pIn, 1) IN
       pOut' = [done |-> TRUE, err |-> r.err, rec |-> r.rec]
  /\ UNCHANGED <<proc, maxRetry, launched, wg, stats, channels, readerVars,
                 writerVars, pIn, dIn, dOut>>

ParseSpec == ParseInit /\ [][ParseStep]_vars

\* ------------------------------------------------------------ helpers
\* A record of file f waits in a channel.
InChannel(f) ==
  \E d \in Devices : \E i \in 1..Len(channels[d]) : channels[d][i].FileName = f

\* A record of file f is held by a writer that has not finished with it.
InDelivery(f) ==
  \E d \in Devices : val[d] # <<>> /\ val[d][1].FileName = f

\* readFile(f) got past os.Open and gzip.NewReader.
Opened(f) == phase[f] \notin {"NotStarted", "Opening", "Fatal"}

\* readFile(f) has read and deleted its stats entry.
Reconciliated(f) == phase[f] \in {"Archiving", "Returning", "Done"}

\* -------------------------------------------------------------- claims

\* C1: when readFile(f) reads and deletes f's stats entry, no record of f is
\* still in a channel or in the hands of a writer.
C1_ReadAfterResolved ==
  [][\A f \in Files :
       (phase[f] = "Reconciling" /\ phase'[f] = "Archiving")
         => (~InChannel(f) /\ ~InDelivery(f))]_vars

\* C2: once readFile(f) is done, stats holds no entry for f and the count the
\* verdict of f used is the number of f's records that exhausted their retries.
C2_FailuresCountedBeforeDone ==
  \A f \in Files :
    phase[f] = "Done" =>
      (f \notin DOMAIN stats.entries /\ nSendingErrors[f] = exhausted[f])

\* C3: a writer that ends a record whose maxRetry attempts all failed raises the
\* stats count of the record's file by exactly one; one that ends a record after
\* a successful attempt leaves stats alone.
C3_FailureCountedOnce ==
  [][\A d \in Devices :
       /\ (wphase[d] = "Failed" /\ wphase'[d] # "Failed")
            => MapGet(stats', val[d][1].FileName) = MapGet(stats, val[d][1].FileName) + 1
       /\ (wphase[d] = "Retrying" /\ wphase'[d] = "Idle") => stats' = stats]_vars

\* C4: a record that exhausted its retries never brings the process down: no
\* writer dies of it.
C4_TerminalFailureAbsorbed ==
  proc # "panic" /\ \A d \in Devices : wphase[d] # "Panicked"

\* C5: with adjustedSuccess = decodeSuccess - deliveryFailures, the verdict is
\* "AllErrors" when adjustedSuccess = 0, and otherwise "Acceptable" exactly when
\* (decodeErrors + deliveryFailures) / adjustedSuccess < 1/100; 2 errors on 200
\* successes fail, 1 error on 200 successes passes.
C5_Disposition ==
  dOut.disp # "none" =>
    LET adjusted == dIn.nSuccess - dIn.nSendingErrors
        errors == dIn.nErrors + dIn.nSendingErrors
    IN /\ adjusted = 0 => dOut.disp = "AllErrors"
       /\ adjusted > 0 => (dOut.disp = "Acceptable" <=> 100 * errors < adjusted)
       /\ adjusted > 0 => (dOut.disp = "High" <=> 100 * errors >= adjusted)
       /\ (dIn = [nErrors |-> 2, nSuccess |-> 200, nSendingErrors |-> 0])
            => dOut.disp = "High"
       /\ (dIn = [nErrors |-> 1, nSuccess |-> 200, nSendingErrors |-> 0])
            => dOut.disp = "Acceptable"

\* C5 witness: the boundary case 2/200 has been computed.
C5_Witness ==
  /\ dIn = [nErrors |-> 2, nSuccess |-> 200, nSendingErrors |-> 0]
  /\ dOut.disp = "High"

\* C6: every file that was opened is renamed, and exactly once.  Stated for the
\* runs that end with every goroutine asleep: a file not renamed by then never
\* will be.
C6_OpenedFileArchivedOnce ==
  \A f \in Files :
    /\ renamed[f] <= 1
    /\ (proc = "deadlock" /\ Opened(f)) => renamed[f] = 1

\* C7 as claimed: a file that cannot be opened ends its own goroutine only, the
\* process goes on.
C7_OpenFailureLocal ==
  \A f \in Files : phase[f] = "Fatal" => proc = "running"

\* C7 as the code has it: a file that cannot be opened ends the process; nothing
\* takes a step after it.
C7_OpenFailureFatal ==
  (\E f \in Files : phase[f] = "Fatal") => (proc = "fatal" /\ ~ENABLED Next)

\* C7 witness: one file failed to open while the goroutine of another was in
\* the middle of its scan, with a record at a writer.
C7_Witness ==
  \E f, g \in Files :
    /\ phase[f] = "Fatal"
    /\ phase[g] = "Scanning" /\ lineNo[g] > 0 /\ renamed[g] = 0
    /\ InDelivery(g)

\* C8: every parsed record gets onto the channel of its DevType and is taken by
\* the writer of that channel only: the record a reader is sending has a channel
\* to go to, a channel holds only records of its own type, and so does a writer.
C8_RoutedToOwnQueue ==
  /\ \A f \in Files : apps[f] # <<>> => apps[f][1].DevType \in DOMAIN channels
  /\ \A d \in Devices : \A i \in 1..Len(channels[d]) : channels[d][i].DevType = d
  /\ \A d \in Devices : val[d] # <<>> => val[d][1].DevType = d

\* C9: a line that fails to parse adds one to nErrors, nothing to nSuccess and
\* no record, and the scan goes on; any other line adds one to nSuccess, nothing
\* to nErrors, and one record to a channel.  So while scanning the two counters
\* add up to the lines read, a file whose lines all failed has them all in
\* nErrors and nothing to send, and when the process has come to rest no counted
\* record is left unsent.
C9_LineAccounting ==
  \A f \in Files :
    /\ phase[f] = "Scanning" => nErrors[f] + nSuccess[f] = lineNo[f]
    /\ (phase[f] = "Scanning" /\ allBad[f]) => (nErrors[f] = lineNo[f] /\ apps[f] = <<>>)
    /\ proc = "deadlock" => apps[f] = <<>>

\* C10: a file whose every line failed to parse is given the verdict
\* "AllErrors", and memClient.Set is never called for it.
C10_AllLinesBad ==
  \A f \in Files :
    allBad[f] =>
      /\ ~attempted[f]
      /\ ~InChannel(f) /\ ~InDelivery(f)
      /\ Reconciliated(f) => disp[f] = "AllErrors"

\* C10 witness: a file of MaxLines lines, none of which parsed, is done, while
\* a record of another file was being delivered.
C10_Witness ==
  \E f, g \in Files :
    /\ allBad[f] /\ lineNo[f] = MaxLines /\ phase[f] = "Done"
    /\ disp[f] = "AllErrors"
    /\ attempted[g]

\* C11: the records of one channel are taken up in the order they were sent,
\* whichever readFile sent them: the record a writer receives is the one sent
\* next after the record it received before, it receives it only when it holds
\* no record (the one before is finished), and the records waiting in the
\* channel are those sent after it, in the order sent.
C11_FifoPerQueue ==
  [][\A d \in Devices :
       /\ lastTicket'[d] # lastTicket[d] =>
            /\ lastTicket'[d] = lastTicket[d] + 1
            /\ wphase[d] = "Idle" /\ val[d] = <<>>
       /\ \A i \in 1..Len(channels[d]) : channels[d][i].Ticket = lastTicket[d] + i]_vars

\* C11 witness: a writer has taken a record and the records of two different
\* files wait behind it in its channel.
C11_Witness ==
  \E d \in Devices :
    /\ lastTicket[d] >= 1
    /\ Len(channels[d]) = 2
    /\ channels[d][1].FileName # channels[d][2].FileName

\* C12: a parsed record has the value of the line's third field as Lat and the
\* value of its fourth field as Lon.
C12_LatLonFromOwnFields ==
  (pOut.done /\ ~pOut.err) =>
    LET fields == Split(pIn, TAB) IN
      /\ pOut.rec.Lat = ParseFloat(fields[3])
      /\ pOut.rec.Lon = ParseFloat(fields[4])

\* C13: for the record a writer holds, memClient.Set is called at most maxRetry
\* times; a call is made only while the writer holds the record and no earlier
\* call for it succeeded; and a record leaves the channel only when the writer
\* holds none (the one before succeeded, or failed and was reported).
C13_BoundedAttempts ==
  [][\A d \in Devices :
       /\ calls'[d] <= (IF maxRetry > 0 THEN maxRetry ELSE 0)
       /\ calls'[d] = calls[d] + 1 => (val[d] # <<>> /\ ~lastOk[d])
       /\ Len(channels'[d]) < Len(channels[d]) =>
            (val[d] = <<>> /\ wphase[d] = "Idle")]_vars

\* C13 witness: one writer has used up all MaxRetryFlag calls on a record, while
\* another finished a record with its first call and has the next one waiting.
C13_Witness ==
  \E d, e \in Devices :
    /\ maxRetry = MaxRetryFlag
    /\ calls[d] = MaxRetryFlag /\ wphase[d] = "Failed"
    /\ calls[e] = 1 /\ lastOk[e] /\ wphase[e] = "Idle" /\ channels[e] # <<>>

\* C14: the update stats.stats[file] += 1 leaves the process running with an
\* entry for the file that is one above what the map gave before (0 when it had
\* no entry, the first failure of the run included); and the read-and-delete of
\* readFile takes exactly what the map holds for the file and leaves no entry.
C14_RegistryOperations ==
  [][/\ \A d \in Devices :
          (wphase[d] = "Failed" /\ wphase'[d] # "Failed") =>
            LET file == val[d][1].FileName IN
              /\ proc' = "running"
              /\ file \in DOMAIN stats'.entries
              /\ stats'.entries[file] = MapGet(stats, file) + 1
     /\ \A f \in Files :
          (phase[f] = "Reconciling" /\ phase'[f] = "Archiving") =>
            /\ nSendingErrors'[f] = MapGet(stats, f)
            /\ f \notin DOMAIN stats'.entries]_vars

\* C15: main returns only when every readFile is done, and as soon as they all
\* are it can return, whatever the channels and the writers hold.
C15_WaitIgnoresQueues ==
  /\ proc = "exited" => \A f \in Files : phase[f] = "Done"
  /\ (proc = "running" /\ \A f \in Files : phase[f] = "Done") => ENABLED MainReturn

\* C15 witness: the process has exited with one record waiting in a channel and
\* another in the middle of its retry loop.
C15_Witness ==
  /\ proc = "exited"
  /\ \E f \in Files : InChannel(f)
  /\ \E d \in Devices : wphase[d] = "Retrying"

\* C16: a channel never holds more than QueueSize records; and a readFile whose
\* record is for a full channel can take no step at all (it reads no further
\* line, does not end its scan), while the channel's writer, once back at its
\* receive, can take a record out.
C16_BoundedQueueBackpressure ==
  /\ \A d \in Devices : Len(channels[d]) <= QueueSize
  /\ \A f \in Files :
       (phase[f] = "Scanning" /\ apps[f] # <<>> /\ apps[f][1].DevType \in Devices) =>
         LET d == apps[f][1].DevType IN
           Len(channels[d]) = QueueSize =>
             /\ ~ENABLED (ScanLine(f) \/ Send(f) \/ EndScan(f))
             /\ (proc = "running" /\ wphase[d] = "Idle") => ENABLED Receive(d)

\* C16 witness: a readFile with lines still to read holds a record for a channel
\* that is full.
C16_Witness ==
  \E f \in Files :
    /\ proc = "running" /\ phase[f] = "Scanning" /\ lineNo[f] < MaxLines
    /\ apps[f] # <<>> /\ apps[f][1].DevType \in Devices
    /\ Len(channels[apps[f][1].DevType]) = QueueSize

\* C17: readFile(f) changes phase only along Opening, Scanning, Reconciling,
\* Archiving, (return,) Done, or from Opening to the fatal end.  Lines are read
\* only while scanning; the stats entry is read and the verdict set only in the
\* step from Reconciling to Archiving, after the scan; the rename happens only
\* in the Archiving step, with the verdict set; wg.Done happens only in the step
\* to Done, after the rename attempt; and the rename step, failed or not, leaves
\* the process running and readFile before its return.
C17_PhaseOrder ==
  [][/\ \A f \in Files :
          /\ phase'[f] # phase[f] =>
                <<phase[f], phase'[f]>> \in
                  { <<"NotStarted", "Opening">>, <<"Opening", "Scanning">>,
                    <<"Opening", "Fatal">>, <<"Scanning", "Reconciling">>,
                    <<"Reconciling", "Archiving">>, <<"Archiving", "Returning">>,
                    <<"Returning", "Done">> }
          /\ lineNo'[f] # lineNo[f] => phase[f] = "Scanning"
          /\ (nSendingErrors'[f] # nSendingErrors[f] \/ disp'[f] # disp[f]) =>
                (phase[f] = "Reconciling" /\ phase'[f] = "Archiving")
          /\ phase'[f] = "Archiving" => disp'[f] # "none"
          /\ renamed'[f] # renamed[f] => (phase[f] = "Archiving" /\ disp[f] # "none")
          /\ (phase[f] = "Archiving" /\ phase'[f] # "Archiving") =>
                (phase'[f] = "Returning" /\ proc' = "running")
     /\ wg' < wg =>
          \E f \in Files : phase[f] = "Returning" /\ phase'[f] = "Done"
                             /\ wg' = wg - 1]_vars

\* C17 witness: the process is running with two files done, the rename of one
\* having failed and that of the other not.
C17_Witness ==
  \E f, g \in Files :
    /\ proc = "running"
    /\ phase[f] = "Done" /\ renamed[f] = 0 /\ disp[f] # "none"
    /\ phase[g] = "Done" /\ renamed[g] = 1

\* C18: a readFile that is not yet done is never stuck for good: while the
\* process runs it either has a step to take or waits for a place in a full
\* channel, which the channel's writer frees; so the process never ends with
\* every goroutine asleep and main still in wg.Wait.
C18_ReaderNeverStuck ==
  /\ \A f \in Files :
       (proc = "running" /\ phase[f] \in {"Opening", "Scanning", "Reconciling",
                                           "Archiving", "Returning"}) =>
         \/ ENABLED (OpenFile(f) \/ ScanLine(f) \/ Send(f) \/ EndScan(f)
                       \/ Reconcile(f) \/ Archive(f) \/ Finish(f))
         \/ /\ apps[f] # <<>>
            /\ apps[f][1].DevType \in Devices
            /\ Len(channels[apps[f][1].DevType]) = QueueSize
  /\ proc # "deadlock"

\* C19: in the step where readFile(f) takes its count from stats, the count is
\* at most the nSuccess the scan ended with, so nSuccess - nSendingErrors is not
\* negative, and a verdict that took the division ("Acceptable" or "High") was
\* computed with a positive nSuccess.
C19_AdjustedSuccessNotNegative ==
  [][\A f \in Files :
       (phase[f] = "Reconciling" /\ phase'[f] = "Archiving") =>
         /\ nSendingErrors'[f] <= nSuccess[f]
         /\ nSuccess'[f] = nSuccess[f] - nSendingErrors'[f]
         /\ nSuccess'[f] >= 0
         /\ disp'[f] \in {"Acceptable", "High"} => nSuccess'[f] > 0]_vars

\* C19 witness: a file has its verdict from the division while one of its
\* records had used up its attempts, and another file with no parsed line has
\* its verdict too.
C19_Witness ==
  \E f, g \in Files :
    /\ Reconciliated(f) /\ exhausted[f] >= 1 /\ disp[f] \in {"Acceptable", "High"}
    /\ Reconciliated(g) /\ allBad[g] /\ lineNo[g] > 0

\* C20: with maxRetry <= 0 memClient.Set is never called, no record uses up its
\* attempts, stats gets no entry and no writer dies; every writer is at its
\* receive holding nothing.  So the verdict of a file counts every parsed line
\* as a success: nSendingErrors is 0 and nSuccess is the lines read less those
\* that failed to parse.
C20_NoAttemptsAtZeroRetry ==
  maxRetry <= 0 =>
    /\ proc \notin {"panic"}
    /\ stats.entries = <<>>
    /\ \A d \in Devices : calls[d] = 0 /\ wphase[d] = "Idle" /\ val[d] = <<>>
    /\ \A f \in Files :
         /\ ~attempted[f] /\ exhausted[f] = 0
         /\ Reconciliated(f) =>
              /\ nSendingErrors[f] = 0
              /\ nSuccess[f] = lineNo[f] - nErrors[f]
              /\ disp[f] = Disposition(nErrors[f], nSuccess[f])

\* C20 witness: with maxRetry <= 0 a writer has taken a record and the file of
\* MaxLines parsed lines is done with the verdict "Acceptable".
C20_Witness ==
  /\ maxRetry <= 0
  /\ \E d \in Devices : lastTicket[d] >= 1 /\ channels[d] = <<>>
  /\ \E f \in Files :
       phase[f] = "Done" /\ nSuccess[f] = MaxLines /\ disp[f] = "Acceptable"

====
